---- MODULE Spec2Model ----
(***************************************************************************)
(* State-machine model of CircuitBreaker (synthetism/circuit-breaker).     *)
(*                                                                         *)
(* The breaker keeps all of its mutable fields in a key-value store        *)
(* (props.state) created by create(); its configuration lives in props.    *)
(* Every public method is one action.  The pure operators canProceed,      *)
(* recordSuccess, recordFailure, resetCircuit and openCircuit compute the  *)
(* store a method leaves behind (and its return value) from the store it   *)
(* finds and the readings of Date.now() it takes.                          *)
(***************************************************************************)
EXTENDS Integers, FiniteSets, Sequences, TLC

(* ------------------------------ bounds --------------------------------- *)
\* largest failureThreshold / timeoutMs / halfOpenSuccessThreshold explored
MaxThreshold == 2
MaxTimeout == 2
MaxHalfOpen == 2
\* the clock runs over 0..MaxTime, the failure counter is capped at MaxFailures
MaxTime == 4
MaxFailures == 3
\* admitted canProceed calls of one probation are counted up to MaxAdmitted
MaxAdmitted == 3
\* urls are strings of at most MaxUrlLen characters over UrlChars
MaxUrlLen == 2
\* callers sharing the breaker begin at most MaxCalls calls between them
MaxCalls == 3
\* and their clock runs over 0..MaxRaceTime
MaxRaceTime == 2

(* --------------------------- values and store -------------------------- *)
\* null / undefined in a numeric slot of the store (timestamps are >= 0)
Null == -1

\* what get returns for the 'state' key when the store does not hold it
Undefined == "undefined"

CircuitState == {"CLOSED", "OPEN", "HALF_OPEN"}

\* the `a ?? b` operator of the source
NullOr(v, d) == IF v = Null THEN d ELSE v

\* JavaScript truthiness of a number-or-null value: null, undefined and 0 are falsy
Truthy(v) == v # Null /\ v # 0

\* the initial values create() hands to createState
InitialStore ==
  [state |-> "CLOSED", failures |-> 0, lastFailure |-> Null,
   successCount |-> 0, openedAt |-> Null]

\* a url is the sequence of its UTF-16 code units (what charCodeAt returns);
\* TestUrl is 'https://api.example.com', the url of the tests
TestUrl ==
  <<104, 116, 116, 112, 115, 58, 47, 47, 97, 112, 105, 46,
    101, 120, 97, 109, 112, 108, 101, 46, 99, 111, 109>>

\* 'A', 'B', 'a'
UrlChars == {65, 66, 97}

Urls == UNION {[1..n -> UrlChars] : n \in 0..MaxUrlLen}

\* the configurations create() can be given: every optional field is either
\* omitted (Null) or a positive integer (spec section 3)
Configs ==
  [url : {TestUrl},
   failureThreshold : {Null} \cup 1..MaxThreshold,
   timeoutMs : {Null} \cup 1..MaxTimeout,
   halfOpenSuccessThreshold : {Null} \cup 1..MaxHalfOpen]

(* ------------------------------- safeId -------------------------------- *)
\* A 32-bit integer is kept as two 16-bit halves [hi, lo] of its two's
\* complement bit pattern, so that the arithmetic below wraps as in the source.
Half == 65536

\* hash = ((hash << 5) - hash) + char; hash = hash & hash
hashStep(h, char) ==
  LET lo5 == h.lo * 32
      sl == lo5 % Half
      sh == (h.hi * 32 + lo5 \div Half) % Half
      dl == sl - h.lo
      borrow == IF dl < 0 THEN 1 ELSE 0
      dh == (sh - h.hi - borrow + 2 * Half) % Half
      al == dl + borrow * Half + char
  IN  [hi |-> (dh + al \div Half) % Half, lo |-> al % Half]

\* the for loop of safeId from index i on, with hash h so far (h.lo < 0 never
\* holds: the test only makes TLC evaluate h before it descends)
RECURSIVE hashLoop(_, _, _)
hashLoop(url, i, h) ==
  IF i > Len(url) \/ h.lo < 0 THEN h ELSE hashLoop(url, i + 1, hashStep(h, url[i]))

\* Math.abs of the signed value: negative patterns (hi >= 2^15) are negated
MathAbs(h) ==
  IF h.hi >= Half \div 2
  THEN [hi |-> (Half - 1 - h.hi + (IF h.lo = 0 THEN 1 ELSE 0)) % Half,
        lo |-> (Half - h.lo) % Half]
  ELSE h

HexDigit ==
  <<"0", "1", "2", "3", "4", "5", "6", "7", "8", "9", "a", "b", "c", "d", "e", "f">>

\* four hexadecimal digits of a 16-bit half
Hex4(n) ==
  <<HexDigit[(n \div 4096) + 1], HexDigit[((n \div 256) % 16) + 1],
    HexDigit[((n \div 16) % 16) + 1], HexDigit[(n % 16) + 1]>>

\* Math.abs(hash).toString(16).padStart(8, '0'): the absolute value is at most
\* 2^31, so the result always has exactly 8 digits
safeId(url) ==
  LET a == MathAbs(hashLoop(url, 1, [hi |-> 0, lo |-> 0])) IN Hex4(a.hi) \o Hex4(a.lo)

(* ------------------------------- create -------------------------------- *)
DefaultFailureThreshold == 5
DefaultTimeoutMs == 30000
DefaultHalfOpenSuccessThreshold == 1

\* variant: a State container is looked up by its id, so two calls with one id
\* hand out the same container
createState_sharedById(cells, id, initial) ==
  IF \E i \in 1..Len(cells) : cells[i].id = id
  THEN [cells |-> cells, handle |-> CHOOSE i \in 1..Len(cells) : cells[i].id = id]
  ELSE [cells |-> Append(cells, [id |-> id, value |-> initial]),
        handle |-> Len(cells) + 1]

\* createState(id, initial) of @synet/state: every call makes a new State
\* container holding the initial values; `cells` are the containers made so
\* far, `handle` names the one returned
createState(cells, id, initial) ==
  [cells |-> Append(cells, [id |-> id, value |-> initial]),
   handle |-> Len(cells) + 1]

\* variant: the defaults of failureThreshold and halfOpenSuccessThreshold are swapped
create_swappedDefaults(cells, cfg) ==
  LET id == safeId(cfg.url)
      state == createState(cells, id, InitialStore)
  IN  [props |-> [dna |-> [id |-> <<"circuit-breaker-">> \o id, version |-> "1.0.0"],
                  url |-> cfg.url,
                  failureThreshold |->
                    NullOr(cfg.failureThreshold, DefaultHalfOpenSuccessThreshold),
                  timeoutMs |-> NullOr(cfg.timeoutMs, DefaultTimeoutMs),
                  halfOpenSuccessThreshold |->
                    NullOr(cfg.halfOpenSuccessThreshold, DefaultFailureThreshold)],
       cells |-> state.cells,
       handle |-> state.handle]

\* create(config): the props of the new breaker and the State container it owns
\* (the 'url' entry of the container is never read and is left out)
create(cells, cfg) ==
  LET id == safeId(cfg.url)
      state == createState(cells, id, InitialStore)
  IN  [props |-> [dna |-> [id |-> <<"circuit-breaker-">> \o id, version |-> "1.0.0"],
                  url |-> cfg.url,
                  failureThreshold |->
                    NullOr(cfg.failureThreshold, DefaultFailureThreshold),
                  timeoutMs |-> NullOr(cfg.timeoutMs, DefaultTimeoutMs),
                  halfOpenSuccessThreshold |->
                    NullOr(cfg.halfOpenSuccessThreshold, DefaultHalfOpenSuccessThreshold)],
       cells |-> state.cells,
       handle |-> state.handle]

VARIABLES
  config,     \* the configuration create() was called with
  other,      \* a second breaker made by a second create(): its props, the contents
              \* of its State container, and whether that is this breaker's container
  store,      \* props.state: the key-value store holding the breaker's fields
  props,      \* failureThreshold, timeoutMs, halfOpenSuccessThreshold
  now,        \* the value Date.now() returns
  op,         \* observation: the method that ran last
  ret,        \* observation: what it returned
  prev,       \* observation: the store that method found
  t0,         \* observation: Date.now() when that method started
  streak,     \* observation: recordFailure calls in a row since create/reset, -1 once broken
  openSince,  \* observation: the time the breaker last entered OPEN from another state
  probes,     \* observation: recordSuccess calls since the breaker entered HALF_OPEN
  admitted,   \* observation: canProceed calls that returned true in this HALF_OPEN
              \* period since the last recorded outcome (counted up to MaxAdmitted)
  calls,      \* per caller, the method it is inside, the source line it is at and
              \* the locals of that method (used when callers share the breaker)
  begun,      \* how many such calls have begun
  sinceSuccess \* observation: recordFailure calls since the most recent
              \* recordSuccess, resetCircuit or creation, kept while the breaker
              \* is CLOSED (0 otherwise: CLOSED is entered only by a creation,
              \* a resetCircuit or a recordSuccess, which start the count anew)

vars == <<config, other, store, props, now, op, ret, prev, t0, streak, openSince,
          probes, admitted, calls, begun, sinceSuccess>>

\* observation: a returned value, tagged with its JavaScript type
Void == [void |-> TRUE]
Boolean(b) == [boolean |-> b]
String(x) == [string |-> x]
Object(o) == [object |-> o]
Json(data) == [json |-> data]
Function(name) == [function |-> name]

(* ------------------------------ methods -------------------------------- *)
\* variant: the stored value is returned as it is, without the default
getCircuitState_noDefault(st) == st.state

getCircuitState(st) == IF st.state = Undefined THEN "CLOSED" ELSE st.state

\* variant: openedAt is written only when it is still unset
openCircuit_keepsOpenedAt(st, t) ==
  [st EXCEPT !.state = "OPEN", !.openedAt = NullOr(st.openedAt, t), !.successCount = 0]

\* variant: opening starts a new count of failures
openCircuit_clearsFailures(st, t) ==
  [st EXCEPT !.state = "OPEN", !.openedAt = t, !.successCount = 0, !.failures = 0]

\* variant: opening leaves the success count of the probation in place
openCircuit_keepsSuccessCount(st, t) ==
  [st EXCEPT !.state = "OPEN", !.openedAt = t]

openCircuit(st, t) ==
  [st EXCEPT !.state = "OPEN", !.openedAt = t, !.successCount = 0]

\* variant: the reset forgets to clear openedAt
resetCircuit_keepsOpenedAt(st) ==
  [st EXCEPT !.state = "CLOSED", !.failures = 0, !.lastFailure = Null,
             !.successCount = 0]

resetCircuit(st) ==
  [st EXCEPT !.state = "CLOSED", !.failures = 0, !.lastFailure = Null,
             !.successCount = 0, !.openedAt = Null]

\* variant: the timeout comparison is one millisecond early
canProceed_early(st, t) ==
  LET currentState == getCircuitState(st) IN
  CASE currentState = "CLOSED" -> [store |-> st, ret |-> TRUE]
    [] currentState = "OPEN" ->
         LET openedAt == st.openedAt IN
         IF Truthy(openedAt) /\ t - openedAt >= props.timeoutMs - 1
         THEN [store |-> [st EXCEPT !.state = "HALF_OPEN", !.successCount = 0],
               ret |-> TRUE]
         ELSE [store |-> st, ret |-> FALSE]
    [] currentState = "HALF_OPEN" -> [store |-> st, ret |-> TRUE]
    [] OTHER -> [store |-> st, ret |-> FALSE]

\* variant: every canProceed in HALF_OPEN restarts the success count
canProceed_halfOpenResets(st, t) ==
  LET currentState == getCircuitState(st) IN
  CASE currentState = "CLOSED" -> [store |-> st, ret |-> TRUE]
    [] currentState = "OPEN" ->
         LET openedAt == st.openedAt IN
         IF Truthy(openedAt) /\ t - openedAt >= props.timeoutMs
         THEN [store |-> [st EXCEPT !.state = "HALF_OPEN", !.successCount = 0],
               ret |-> TRUE]
         ELSE [store |-> st, ret |-> FALSE]
    [] currentState = "HALF_OPEN" ->
         [store |-> [st EXCEPT !.successCount = 0], ret |-> TRUE]
    [] OTHER -> [store |-> st, ret |-> FALSE]

\* variant: the move to HALF_OPEN also clears openedAt
canProceed_clearsOpenedAt(st, t) ==
  LET currentState == getCircuitState(st) IN
  CASE currentState = "CLOSED" -> [store |-> st, ret |-> TRUE]
    [] currentState = "OPEN" ->
         LET openedAt == st.openedAt IN
         IF Truthy(openedAt) /\ t - openedAt >= props.timeoutMs
         THEN [store |-> [st EXCEPT !.state = "HALF_OPEN", !.successCount = 0,
                                    !.openedAt = Null],
               ret |-> TRUE]
         ELSE [store |-> st, ret |-> FALSE]
    [] currentState = "HALF_OPEN" -> [store |-> st, ret |-> TRUE]
    [] OTHER -> [store |-> st, ret |-> FALSE]

\* variant: after the timeout the caller is admitted but the state is not moved
canProceed_admitsWhileOpen(st, t) ==
  LET currentState == getCircuitState(st) IN
  CASE currentState = "CLOSED" -> [store |-> st, ret |-> TRUE]
    [] currentState = "OPEN" ->
         LET openedAt == st.openedAt IN
         IF Truthy(openedAt) /\ t - openedAt >= props.timeoutMs
         THEN [store |-> st, ret |-> TRUE]
         ELSE [store |-> st, ret |-> FALSE]
    [] currentState = "HALF_OPEN" -> [store |-> st, ret |-> TRUE]
    [] OTHER -> [store |-> st, ret |-> FALSE]

\* canProceed at clock reading t: the store it leaves and the boolean it returns
canProceed(st, t) ==
  LET currentState == getCircuitState(st) IN
  CASE currentState = "CLOSED" -> [store |-> st, ret |-> TRUE]
    [] currentState = "OPEN" ->
         LET openedAt == st.openedAt IN
         IF Truthy(openedAt) /\ t - openedAt >= props.timeoutMs
         THEN [store |-> [st EXCEPT !.state = "HALF_OPEN", !.successCount = 0],
               ret |-> TRUE]
         ELSE [store |-> st, ret |-> FALSE]
    [] currentState = "HALF_OPEN" -> [store |-> st, ret |-> TRUE]
    [] OTHER -> [store |-> st, ret |-> FALSE]

\* variant: a success while CLOSED clears lastFailure but not the count
recordSuccess_keepsFailures(st) ==
  LET currentState == getCircuitState(st) IN
  IF currentState = "HALF_OPEN"
  THEN LET successCount == NullOr(st.successCount, 0) + 1
           s1 == [st EXCEPT !.successCount = successCount]
       IN  IF successCount >= props.halfOpenSuccessThreshold
           THEN resetCircuit(s1)
           ELSE s1
  ELSE IF currentState = "CLOSED"
       THEN [st EXCEPT !.lastFailure = Null]
       ELSE st

\* variant: the probation closes only when successCount exceeds the threshold
recordSuccess_strict(st) ==
  LET currentState == getCircuitState(st) IN
  IF currentState = "HALF_OPEN"
  THEN LET successCount == NullOr(st.successCount, 0) + 1
           s1 == [st EXCEPT !.successCount = successCount]
       IN  IF successCount > props.halfOpenSuccessThreshold
           THEN resetCircuit(s1)
           ELSE s1
  ELSE IF currentState = "CLOSED"
       THEN [st EXCEPT !.failures = 0, !.lastFailure = Null]
       ELSE st

\* variant: a success while CLOSED does not forgive earlier failures
recordSuccess_noForgive(st) ==
  LET currentState == getCircuitState(st) IN
  IF currentState = "HALF_OPEN"
  THEN LET successCount == NullOr(st.successCount, 0) + 1
           s1 == [st EXCEPT !.successCount = successCount]
       IN  IF successCount >= props.halfOpenSuccessThreshold
           THEN resetCircuit(s1)
           ELSE s1
  ELSE st

\* variant: the failure count is cleared in every state but HALF_OPEN
recordSuccess_clearsWhenOpen(st) ==
  LET currentState == getCircuitState(st) IN
  IF currentState = "HALF_OPEN"
  THEN LET successCount == NullOr(st.successCount, 0) + 1
           s1 == [st EXCEPT !.successCount = successCount]
       IN  IF successCount >= props.halfOpenSuccessThreshold
           THEN resetCircuit(s1)
           ELSE s1
  ELSE [st EXCEPT !.failures = 0, !.lastFailure = Null]

\* variant: a success while OPEN is counted like a success while HALF_OPEN
recordSuccess_closesFromOpen(st) ==
  LET currentState == getCircuitState(st) IN
  IF currentState = "HALF_OPEN" \/ currentState = "OPEN"
  THEN LET successCount == NullOr(st.successCount, 0) + 1
           s1 == [st EXCEPT !.successCount = successCount]
       IN  IF successCount >= props.halfOpenSuccessThreshold
           THEN resetCircuit(s1)
           ELSE s1
  ELSE IF currentState = "CLOSED"
       THEN [st EXCEPT !.failures = 0, !.lastFailure = Null]
       ELSE st

recordSuccess(st) ==
  LET currentState == getCircuitState(st) IN
  IF currentState = "HALF_OPEN"
  THEN LET successCount == NullOr(st.successCount, 0) + 1
           s1 == [st EXCEPT !.successCount = successCount]
       IN  IF successCount >= props.halfOpenSuccessThreshold
           THEN resetCircuit(s1)
           ELSE s1
  ELSE IF currentState = "CLOSED"
       THEN [st EXCEPT !.failures = 0, !.lastFailure = Null]
       ELSE st

\* variant: the breaker opens only once the threshold is exceeded
recordFailure_late(st, t1, t2) ==
  LET failures == NullOr(st.failures, 0) + 1
      s1 == [st EXCEPT !.failures = failures, !.lastFailure = t1]
      currentState == getCircuitState(s1)
  IN  IF currentState = "HALF_OPEN"
      THEN openCircuit(s1, t2)
      ELSE IF failures > props.failureThreshold
           THEN openCircuit(s1, t2)
           ELSE s1

\* variant: the breaker opens one failure before the threshold
recordFailure_eager(st, t1, t2) ==
  LET failures == NullOr(st.failures, 0) + 1
      s1 == [st EXCEPT !.failures = failures, !.lastFailure = t1]
      currentState == getCircuitState(s1)
  IN  IF currentState = "HALF_OPEN"
      THEN openCircuit(s1, t2)
      ELSE IF failures >= props.failureThreshold - 1
           THEN openCircuit(s1, t2)
           ELSE s1

\* variant: failures are not counted while the breaker is already OPEN
recordFailure_skipsWhenOpen(st, t1, t2) ==
  LET failures == NullOr(st.failures, 0) + 1
      s1 == [st EXCEPT !.failures = failures, !.lastFailure = t1]
      currentState == getCircuitState(s1)
  IN  IF currentState = "OPEN"
      THEN st
      ELSE IF currentState = "HALF_OPEN"
           THEN openCircuit(s1, t2)
           ELSE IF failures >= props.failureThreshold
                THEN openCircuit(s1, t2)
                ELSE s1

\* recordFailure reads the clock twice: t1 for lastFailure, t2 (>= t1) in openCircuit
recordFailure(st, t1, t2) ==
  LET failures == NullOr(st.failures, 0) + 1
      s1 == [st EXCEPT !.failures = failures, !.lastFailure = t1]
      currentState == getCircuitState(s1)
  IN  IF currentState = "HALF_OPEN"
      THEN openCircuit(s1, t2)
      ELSE IF failures >= props.failureThreshold
           THEN openCircuit(s1, t2)
           ELSE s1

\* variant: the openedAt slot is filled from the 'lastFailure' key
getStats_openedAtFromLastFailure(st) ==
  [url |-> props.url,
   state |-> getCircuitState(st),
   failures |-> NullOr(st.failures, 0),
   lastFailure |-> st.lastFailure,
   successCount |-> NullOr(st.successCount, 0),
   openedAt |-> st.lastFailure,
   config |-> [failureThreshold |-> props.failureThreshold,
               timeoutMs |-> props.timeoutMs,
               halfOpenSuccessThreshold |-> props.halfOpenSuccessThreshold]]

getStats(st) ==
  [url |-> props.url,
   state |-> getCircuitState(st),
   failures |-> NullOr(st.failures, 0),
   lastFailure |-> st.lastFailure,
   successCount |-> NullOr(st.successCount, 0),
   openedAt |-> st.openedAt,
   config |-> [failureThreshold |-> props.failureThreshold,
               timeoutMs |-> props.timeoutMs,
               halfOpenSuccessThreshold |-> props.halfOpenSuccessThreshold]]

\* JSON.stringify of a number-or-null leaf: its decimal digits, or null
JsonNumber(v) == IF v = Null THEN "null" ELSE ToString(v)

\* toJson at clock reading t: the object handed to JSON.stringify, with every
\* numeric leaf as JSON.stringify writes it
toJson(st, t) ==
  [unitId |-> props.dna.id,
   version |-> props.dna.version,
   url |-> props.url,
   config |-> [failureThreshold |-> JsonNumber(props.failureThreshold),
               timeoutMs |-> JsonNumber(props.timeoutMs),
               halfOpenSuccessThreshold |-> JsonNumber(props.halfOpenSuccessThreshold)],
   state |-> [current |-> getCircuitState(st),
              failures |-> JsonNumber(NullOr(st.failures, 0)),
              lastFailure |-> JsonNumber(st.lastFailure),
              successCount |-> JsonNumber(NullOr(st.successCount, 0)),
              openedAt |-> JsonNumber(st.openedAt)],
   timestamp |-> JsonNumber(t)]

\* the names of the capabilities in the contract teach() returns
Capabilities ==
  {"canProceed", "recordSuccess", "recordFailure", "getCircuitState",
   "resetCircuit", "getStats", "toJson"}

\* teach().capabilities[name](): the arrow function `() => this[name].bind(this)`
\* returns the bound method; the method itself does not run
capability(name, st, t) ==
  [store |-> st, ret |-> Function(name)]

\* what calling the method `name` directly, at clock reading t, leaves and returns
method(name, st, t) ==
  CASE name = "canProceed" ->
         [store |-> canProceed(st, t).store,
          ret |-> Boolean(canProceed(st, t).ret)]
    [] name = "recordSuccess" ->
         [store |-> recordSuccess(st), ret |-> Void]
    [] name = "recordFailure" ->
         [store |-> recordFailure(st, t, t), ret |-> Void]
    [] name = "getCircuitState" ->
         [store |-> st, ret |-> String(getCircuitState(st))]
    [] name = "resetCircuit" ->
         [store |-> resetCircuit(st), ret |-> Void]
    [] name = "getStats" ->
         [store |-> st, ret |-> Object(getStats(st))]
    [] name = "toJson" ->
         [store |-> st, ret |-> Json(toJson(st, t))]

(* ------------------- the methods, one store access at a time ----------- *)
\* The store is shared by every caller of the breaker and each get or set is
\* one step (spec section 5).  A call is the method a caller is inside, the
\* source line it is about to run (pc, 0 once it has returned) and the locals
\* of that method; inStuck observes that the store has been in
\* OpenWithoutOpenedAt from the moment the call began until it returned.
Callers == 1..2

Methods == {"canProceed", "recordSuccess", "recordFailure", "resetCircuit"}

\* the first line of each method's body
Entry ==
  [canProceed |-> 73, recordSuccess |-> 100, recordFailure |-> 118,
   resetCircuit |-> 138]

NoCall ==
  [method |-> "none", pc |-> 0, failures |-> Null, successCount |-> Null,
   openedAt |-> Null, currentState |-> "", ret |-> "", inStuck |-> FALSE]

\* state OPEN although no opening time is stored
OpenWithoutOpenedAt(st) == st.state = "OPEN" /\ st.openedAt = Null

NewCall(m, st) == [NoCall EXCEPT !.method = m, !.pc = Entry[m],
                                 !.inStuck = OpenWithoutOpenedAt(st)]

\* the locals end with the call; the record keeps what the call returned and,
\* as observations, the count it computed at line 118 and inStuck
Return(k, v) ==
  [k EXCEPT !.pc = 0, !.ret = v, !.successCount = Null, !.openedAt = Null,
            !.currentState = ""]

\* props.state.get(key) and props.state.set(key, value)
get(st, key) == st[key]

set(st, key, value) == [st EXCEPT ![key] = value]

\* resetCircuit, lines 138-142
resetCircuitStep(st, k, t) ==
  CASE k.pc = 138 -> [store |-> set(st, "state", "CLOSED"), call |-> [k EXCEPT !.pc = 139]]
    [] k.pc = 139 -> [store |-> set(st, "failures", 0), call |-> [k EXCEPT !.pc = 140]]
    [] k.pc = 140 -> [store |-> set(st, "lastFailure", Null), call |-> [k EXCEPT !.pc = 141]]
    [] k.pc = 141 -> [store |-> set(st, "successCount", 0), call |-> [k EXCEPT !.pc = 142]]
    [] k.pc = 142 -> [store |-> set(st, "openedAt", Null), call |-> Return(k, "void")]

\* openCircuit, lines 146-148
openCircuitStep(st, k, t) ==
  CASE k.pc = 146 -> [store |-> set(st, "state", "OPEN"), call |-> [k EXCEPT !.pc = 147]]
    [] k.pc = 147 -> [store |-> set(st, "openedAt", t), call |-> [k EXCEPT !.pc = 148]]
    [] k.pc = 148 -> [store |-> set(st, "successCount", 0), call |-> Return(k, "void")]

\* variant: the count is read again when it is written (an atomic increment)
recordFailureStep_atomicIncrement(st, k, t) ==
  CASE k.pc = 118 ->
         [store |-> st,
          call |-> [k EXCEPT !.failures = NullOr(get(st, "failures"), 0) + 1, !.pc = 119]]
    [] k.pc = 119 ->
         [store |-> set(st, "failures", NullOr(get(st, "failures"), 0) + 1),
          call |-> [k EXCEPT !.pc = 120]]
    [] k.pc = 120 ->
         [store |-> set(st, "lastFailure", t), call |-> [k EXCEPT !.pc = 122]]
    [] k.pc = 122 ->
         LET currentState == getCircuitState(st) IN
         [store |-> st,
          call |-> IF currentState = "HALF_OPEN" \/ k.failures >= props.failureThreshold
                   THEN [k EXCEPT !.currentState = currentState, !.pc = 146]
                   ELSE Return([k EXCEPT !.currentState = currentState], "void")]

\* recordFailure, lines 118-130; the call goes on in openCircuit at line 146
recordFailureStep(st, k, t) ==
  CASE k.pc = 118 ->
         [store |-> st,
          call |-> [k EXCEPT !.failures = NullOr(get(st, "failures"), 0) + 1, !.pc = 119]]
    [] k.pc = 119 ->
         [store |-> set(st, "failures", k.failures), call |-> [k EXCEPT !.pc = 120]]
    [] k.pc = 120 ->
         [store |-> set(st, "lastFailure", t), call |-> [k EXCEPT !.pc = 122]]
    [] k.pc = 122 ->
         LET currentState == getCircuitState(st) IN
         [store |-> st,
          call |-> IF currentState = "HALF_OPEN" \/ k.failures >= props.failureThreshold
                   THEN [k EXCEPT !.currentState = currentState, !.pc = 146]
                   ELSE Return([k EXCEPT !.currentState = currentState], "void")]

\* variant: an absent openedAt counts as the instant 0
canProceedStep_absentIsZero(st, k, t) ==
  CASE k.pc = 73 ->
         LET currentState == getCircuitState(st)
             k1 == [k EXCEPT !.currentState = currentState]
         IN  [store |-> st,
              call |-> CASE currentState = "CLOSED" -> Return(k1, "true")
                         [] currentState = "OPEN" -> [k1 EXCEPT !.pc = 81]
                         [] currentState = "HALF_OPEN" -> Return(k1, "true")
                         [] OTHER -> Return(k1, "false")]
    [] k.pc = 81 ->
         [store |-> st, call |-> [k EXCEPT !.openedAt = get(st, "openedAt"), !.pc = 82]]
    [] k.pc = 82 ->
         [store |-> st,
          call |-> IF t - NullOr(k.openedAt, 0) >= props.timeoutMs
                   THEN [k EXCEPT !.pc = 84]
                   ELSE Return(k, "false")]
    [] k.pc = 84 -> [store |-> set(st, "state", "HALF_OPEN"), call |-> [k EXCEPT !.pc = 85]]
    [] k.pc = 85 -> [store |-> set(st, "successCount", 0), call |-> Return(k, "true")]

\* canProceed, lines 73-95
canProceedStep(st, k, t) ==
  CASE k.pc = 73 ->
         LET currentState == getCircuitState(st)
             k1 == [k EXCEPT !.currentState = currentState]
         IN  [store |-> st,
              call |-> CASE currentState = "CLOSED" -> Return(k1, "true")
                         [] currentState = "OPEN" -> [k1 EXCEPT !.pc = 81]
                         [] currentState = "HALF_OPEN" -> Return(k1, "true")
                         [] OTHER -> Return(k1, "false")]
    [] k.pc = 81 ->
         [store |-> st, call |-> [k EXCEPT !.openedAt = get(st, "openedAt"), !.pc = 82]]
    [] k.pc = 82 ->
         [store |-> st,
          call |-> IF Truthy(k.openedAt) /\ t - k.openedAt >= props.timeoutMs
                   THEN [k EXCEPT !.pc = 84]
                   ELSE Return(k, "false")]
    [] k.pc = 84 -> [store |-> set(st, "state", "HALF_OPEN"), call |-> [k EXCEPT !.pc = 85]]
    [] k.pc = 85 -> [store |-> set(st, "successCount", 0), call |-> Return(k, "true")]

\* recordSuccess, lines 100-113; the call goes on in resetCircuit at line 138
recordSuccessStep(st, k, t) ==
  CASE k.pc = 100 ->
         LET currentState == getCircuitState(st)
             k1 == [k EXCEPT !.currentState = currentState]
         IN  [store |-> st,
              call |-> IF currentState = "HALF_OPEN" THEN [k1 EXCEPT !.pc = 103]
                       ELSE IF currentState = "CLOSED" THEN [k1 EXCEPT !.pc = 112]
                       ELSE Return(k1, "void")]
    [] k.pc = 103 ->
         [store |-> st,
          call |-> [k EXCEPT !.successCount = NullOr(get(st, "successCount"), 0) + 1,
                             !.pc = 104]]
    [] k.pc = 104 ->
         [store |-> set(st, "successCount", k.successCount),
          call |-> IF k.successCount >= props.halfOpenSuccessThreshold
                   THEN [k EXCEPT !.pc = 138]
                   ELSE Return(k, "void")]
    [] k.pc = 112 -> [store |-> set(st, "failures", 0), call |-> [k EXCEPT !.pc = 113]]
    [] k.pc = 113 -> [store |-> set(st, "lastFailure", Null), call |-> Return(k, "void")]

(* ------------------------------ actions -------------------------------- *)
\* two create() calls, the first with cfg and the second with cfg2: the state
\* right after construction
InitWith(cfg, cfg2) ==
  LET b1 == create(<<>>, cfg)
      b2 == create(b1.cells, cfg2)
  IN  /\ config = cfg
      /\ props = b1.props
      /\ store = b2.cells[b1.handle].value
      /\ other = [props |-> b2.props,
                  store |-> b2.cells[b2.handle].value,
                  shares |-> (b1.handle = b2.handle)]

\* what the second breaker reads from its container once this breaker's
\* container holds s
OtherAfter(s) == [other EXCEPT !.store = IF other.shares THEN s ELSE @]

\* nothing has been observed yet
InitObserved ==
  /\ probes = 0
  /\ admitted = 0
  /\ now = 0
  /\ op = "create"
  /\ ret = Void
  /\ prev = InitialStore
  /\ t0 = 0
  /\ streak = 0
  /\ openSince = Null
  /\ calls = [c \in Callers |-> NoCall]
  /\ begun = 0
  /\ sinceSuccess = 0

\* create(config), and a second create(config) with the same url
Init ==
  /\ \E c \in Configs : InitWith(c, c)
  /\ InitObserved

\* two breakers made for any two urls, every optional field omitted
UrlConfig(u) ==
  [url |-> u, failureThreshold |-> Null, timeoutMs |-> Null,
   halfOpenSuccessThreshold |-> Null]

InitUrls ==
  /\ \E u1 \in Urls, u2 \in Urls : InitWith(UrlConfig(u1), UrlConfig(u2))
  /\ InitObserved

\* create(config) with every option given: the defaults of the thresholds
\* behave like values already covered or beyond the bounds
InitExplicit ==
  /\ \E c \in Configs :
       /\ c.failureThreshold # Null
       /\ c.timeoutMs # Null
       /\ c.halfOpenSuccessThreshold # Null
       /\ InitWith(c, c)
  /\ InitObserved

\* the store after the keys in missing have been lost from it
Without(st, missing) ==
  [state |-> IF "state" \in missing THEN Undefined ELSE st.state,
   failures |-> IF "failures" \in missing THEN Null ELSE st.failures,
   lastFailure |-> IF "lastFailure" \in missing THEN Null ELSE st.lastFailure,
   successCount |-> IF "successCount" \in missing THEN Null ELSE st.successCount,
   openedAt |-> IF "openedAt" \in missing THEN Null ELSE st.openedAt]

StoreKeys == {"state", "failures", "lastFailure", "successCount", "openedAt"}

\* a breaker whose backing store holds only some of its keys; timeoutMs and
\* halfOpenSuccessThreshold are left to their defaults
InitAbsent ==
  /\ \E u \in {TestUrl}, n \in {Null} \cup 1..MaxThreshold, missing \in SUBSET StoreKeys :
       LET cfg == [UrlConfig(u) EXCEPT !.failureThreshold = n]
           b1 == create(<<>>, cfg)
           b2 == create(b1.cells, cfg)
       IN  /\ config = cfg
           /\ props = b1.props
           /\ store = Without(b2.cells[b1.handle].value, missing)
           /\ other = [props |-> b2.props,
                       store |-> b2.cells[b2.handle].value,
                       shares |-> (b1.handle = b2.handle)]
  /\ InitObserved

\* observation of a state change: the time the breaker last entered OPEN from
\* another state; forgotten once the breaker is CLOSED again
EnteredOpen(old, new, t) ==
  IF new.state = "OPEN" /\ old.state # "OPEN" THEN t
  ELSE IF new.state = "CLOSED" THEN Null ELSE openSince

Tick ==
  /\ now < MaxTime
  /\ now' = now + 1
  /\ UNCHANGED <<sinceSuccess, calls, begun, config, other, store, props, op, ret, prev, t0, streak, openSince,
               probes, admitted>>

CanProceed ==
  LET r == canProceed(store, now) IN
  /\ store' = r.store
  /\ other' = OtherAfter(r.store)
  /\ ret' = Boolean(r.ret)
  /\ op' = "canProceed"
  /\ prev' = store
  /\ t0' = now
  /\ streak' = -1
  /\ openSince' = EnteredOpen(store, r.store, now)
  /\ probes' = IF r.store.state = "HALF_OPEN" /\ store.state # "HALF_OPEN" THEN 0 ELSE probes
  /\ admitted' = IF r.store.state = "HALF_OPEN" /\ r.ret = TRUE
                 THEN IF store.state = "HALF_OPEN"
                      THEN IF admitted < MaxAdmitted THEN admitted + 1 ELSE admitted
                      ELSE 1
                 ELSE 0
  /\ UNCHANGED <<sinceSuccess, calls, begun, config, props, now>>

RecordSuccess ==
  LET s == recordSuccess(store) IN
  /\ store' = s
  /\ other' = OtherAfter(s)
  /\ ret' = Void
  /\ op' = "recordSuccess"
  /\ prev' = store
  /\ t0' = now
  \* a success that closes the breaker goes through resetCircuit
  /\ streak' = IF store.state = "HALF_OPEN" /\ s.state = "CLOSED" THEN 0 ELSE -1
  /\ openSince' = EnteredOpen(store, s, now)
  /\ probes' = IF store.state = "HALF_OPEN" THEN probes + 1 ELSE probes
  /\ admitted' = 0
  /\ sinceSuccess' = 0
  /\ UNCHANGED <<calls, begun, config, props, now>>

RecordFailure ==
  /\ store.failures < MaxFailures
  /\ \E d \in 0..1 :
       /\ now + d <= MaxTime
       /\ LET s == recordFailure(store, now, now + d) IN
          /\ store' = s
          /\ other' = OtherAfter(s)
          /\ now' = now + d
          /\ openSince' = EnteredOpen(store, s, now + d)
  /\ ret' = Void
  /\ op' = "recordFailure"
  /\ prev' = store
  /\ t0' = now
  /\ streak' = IF streak >= 0 THEN streak + 1 ELSE -1
  /\ admitted' = 0
  /\ sinceSuccess' = IF getCircuitState(store') = "CLOSED" THEN sinceSuccess + 1 ELSE 0
  /\ UNCHANGED <<calls, begun, config, props, probes>>

ResetCircuit ==
  /\ store' = resetCircuit(store)
  /\ other' = OtherAfter(resetCircuit(store))
  /\ ret' = Void
  /\ op' = "resetCircuit"
  /\ prev' = store
  /\ t0' = now
  /\ streak' = 0
  /\ openSince' = Null
  /\ admitted' = 0
  /\ sinceSuccess' = 0
  /\ UNCHANGED <<calls, begun, config, props, now, probes>>

\* a method that only reads: it returns r and writes nothing
Read(name, r) ==
  /\ ret' = r
  /\ op' = name
  /\ prev' = store
  /\ t0' = now
  /\ streak' = -1
  /\ UNCHANGED <<sinceSuccess, calls, begun, config, other, store, props, now, openSince, probes, admitted>>

GetCircuitState == Read("getCircuitState", String(getCircuitState(store)))

GetStats == Read("getStats", Object(getStats(store)))

ToJson == Read("toJson", Json(toJson(store, now)))

\* observation: how the invocation of a taught capability is recorded in op
CapabilityOp ==
  [canProceed |-> "teach.canProceed", recordSuccess |-> "teach.recordSuccess",
   recordFailure |-> "teach.recordFailure",
   getCircuitState |-> "teach.getCircuitState",
   resetCircuit |-> "teach.resetCircuit", getStats |-> "teach.getStats",
   toJson |-> "teach.toJson"]

\* teach().capabilities[name]() with no arguments
InvokeCapability ==
  \E name \in Capabilities :
    LET r == capability(name, store, now) IN
    /\ store' = r.store
    /\ other' = OtherAfter(r.store)
    /\ ret' = r.ret
    /\ op' = CapabilityOp[name]
    /\ prev' = store
    /\ t0' = now
    /\ streak' = -1
    /\ openSince' = EnteredOpen(store, r.store, now)
    /\ UNCHANGED <<sinceSuccess, calls, begun, config, props, now, probes, admitted>>

\* the clock advances while calls are under way
TickRace == now < MaxRaceTime /\ Tick

\* caller c enters method m
Call(c, m) ==
  /\ calls[c].pc = 0
  /\ begun < MaxCalls
  /\ m = "recordFailure" => NullOr(store.failures, 0) < MaxFailures
  /\ calls' = [calls EXCEPT ![c] = NewCall(m, store)]
  /\ begun' = begun + 1
  /\ UNCHANGED <<sinceSuccess, config, other, store, props, now, op, ret, prev, t0,
                 streak, openSince, probes, admitted>>

\* caller c runs the line it is at: one store access, by the step operator r
Step(c, r) ==
  /\ store' = r.store
  /\ other' = OtherAfter(r.store)
  /\ calls' = [d \in Callers |->
                LET k == IF d = c THEN r.call ELSE calls[d] IN
                IF calls[d].pc = 0 THEN k
                ELSE [k EXCEPT !.inStuck = @ /\ OpenWithoutOpenedAt(r.store)]]
  /\ UNCHANGED <<sinceSuccess, begun, config, props, now, op, ret, prev, t0, streak,
                 openSince, probes, admitted>>

StepCanProceed(c) ==
  /\ calls[c].pc \in {73, 81, 82, 84, 85}
  /\ Step(c, canProceedStep(store, calls[c], now))

StepRecordSuccess(c) ==
  /\ calls[c].pc \in {100, 103, 104, 112, 113}
  /\ Step(c, recordSuccessStep(store, calls[c], now))

StepRecordFailure(c) ==
  /\ calls[c].pc \in {118, 119, 120, 122}
  /\ Step(c, recordFailureStep(store, calls[c], now))

StepResetCircuit(c) ==
  /\ calls[c].pc \in 138..142
  /\ Step(c, resetCircuitStep(store, calls[c], now))

StepOpenCircuit(c) ==
  /\ calls[c].pc \in 146..148
  /\ Step(c, openCircuitStep(store, calls[c], now))

Next ==
  \/ Tick
  \/ CanProceed
  \/ RecordSuccess
  \/ RecordFailure
  \/ ResetCircuit
  \/ GetCircuitState
  \/ GetStats
  \/ ToJson
  \/ InvokeCapability

Spec == Init /\ [][Next]_vars

\* the clock keeps advancing and canProceed keeps being called
SpecLive == Init /\ [][Next]_vars /\ WF_vars(Tick) /\ WF_vars(CanProceed)

\* the same breaker, created for every pair of urls
SpecUrls == InitUrls /\ [][Next]_vars

\* the breaker over a backing store that lacks keys
SpecAbsent == InitAbsent /\ [][Next]_vars

\* the breaker shared by callers whose store accesses interleave
NextRace ==
  \/ TickRace
  \/ \E c \in Callers, m \in Methods : Call(c, m)
  \/ \E c \in Callers : StepCanProceed(c)
  \/ \E c \in Callers : StepRecordSuccess(c)
  \/ \E c \in Callers : StepRecordFailure(c)
  \/ \E c \in Callers : StepResetCircuit(c)
  \/ \E c \in Callers : StepOpenCircuit(c)

SpecRace == InitExplicit /\ [][NextRace]_vars

(* ------------------------------- claims -------------------------------- *)
\* C1: after exactly failureThreshold recordFailure calls in a row on a fresh or
\* reset breaker the state is OPEN, and while less than timeoutMs has passed
\* since the opening a canProceed call returns false.
C1_OpensAtThreshold ==
  (op = "recordFailure" /\ streak = props.failureThreshold) =>
     /\ getCircuitState(store) = "OPEN"
     /\ (now - openSince < props.timeoutMs => canProceed(store, now).ret = FALSE)

C1_Witness ==
  /\ op = "recordFailure"
  /\ props.failureThreshold = 2
  /\ streak = 2
  /\ store.state = "OPEN"
  /\ now - openSince < props.timeoutMs
  /\ canProceed(store, now).ret = FALSE

\* C2: after N < failureThreshold recordFailure calls in a row on a fresh or
\* reset breaker the state is still CLOSED and canProceed returns true.
C2_ClosedBelowThreshold ==
  (streak >= 0 /\ streak < props.failureThreshold) =>
     /\ getCircuitState(store) = "CLOSED"
     /\ canProceed(store, now).ret = TRUE
     /\ canProceed(store, now).store = store

C2_Witness ==
  /\ op = "recordFailure"
  /\ streak = 1
  /\ props.failureThreshold = 2
  /\ store.state = "CLOSED"
  /\ store.failures = 1

\* C3: a canProceed call made while OPEN, less than timeoutMs after the breaker
\* entered OPEN, returns false and leaves the state and every stored field as
\* they were.
C3_OpenBlocksBeforeTimeout ==
  (op = "canProceed" /\ prev.state = "OPEN" /\ t0 - openSince < props.timeoutMs) =>
     /\ ret = Boolean(FALSE)
     /\ store = prev
     /\ store.state = "OPEN"

C3_Witness ==
  /\ op = "canProceed"
  /\ prev.state = "OPEN"
  /\ t0 - openSince < props.timeoutMs
  /\ t0 > openSince
  /\ prev.openedAt > 0
  /\ ret = Boolean(FALSE)

\* C4: a canProceed call made while OPEN with now - openedAt >= timeoutMs, for
\* every value of openedAt, returns true, moves the breaker to HALF_OPEN and
\* sets successCount to 0.
C4_TimeoutAdmitsProbe ==
  (op = "canProceed" /\ prev.state = "OPEN" /\ prev.openedAt # Null
     /\ t0 - prev.openedAt >= props.timeoutMs) =>
     /\ ret = Boolean(TRUE)
     /\ store.state = "HALF_OPEN"
     /\ store.successCount = 0

\* C5: one recordFailure while HALF_OPEN reopens the breaker: the state is
\* OPEN, openedAt is the clock reading taken by that call, successCount is 0,
\* and canProceed returns false until timeoutMs has passed since that failure.
C5_HalfOpenFailureReopens ==
  (op = "recordFailure" /\ prev.state = "HALF_OPEN") =>
     /\ store.state = "OPEN"
     /\ store.openedAt = openSince
     /\ store.openedAt >= t0
     /\ store.lastFailure = t0
     /\ store.successCount = 0
     /\ (now - store.lastFailure < props.timeoutMs => canProceed(store, now).ret = FALSE)

C5_Witness ==
  /\ op = "recordFailure"
  /\ prev.state = "HALF_OPEN"
  /\ store.state = "OPEN"
  /\ prev.openedAt < store.openedAt
  /\ now > store.lastFailure
  /\ now - store.lastFailure < props.timeoutMs

\* C6: in HALF_OPEN the breaker stays HALF_OPEN while fewer than
\* halfOpenSuccessThreshold successes were recorded in this probation, and the
\* recordSuccess that reaches the threshold leaves the breaker as create()
\* leaves it: CLOSED, failures 0, successCount 0, lastFailure and openedAt null.
C6_HalfOpenSuccessCloses ==
  /\ (op \in {"recordSuccess", "canProceed"} /\ prev.state = "HALF_OPEN"
        /\ probes < props.halfOpenSuccessThreshold) =>
       /\ store.state = "HALF_OPEN"
       /\ store.successCount = probes
  /\ (op = "recordSuccess" /\ prev.state = "HALF_OPEN"
        /\ probes >= props.halfOpenSuccessThreshold) =>
       /\ probes = props.halfOpenSuccessThreshold
       /\ store = InitialStore

C6_Witness ==
  /\ op = "recordSuccess"
  /\ prev.state = "HALF_OPEN"
  /\ prev.successCount = 1
  /\ probes = 2
  /\ props.halfOpenSuccessThreshold = 2
  /\ store.state = "CLOSED"

\* C7: a recordFailure while OPEN increments failures, leaves the state OPEN
\* and leaves openedAt as it was.
C7_OpenFailureKeepsOpenedAt ==
  (op = "recordFailure" /\ prev.state = "OPEN") =>
     /\ store.failures = prev.failures + 1
     /\ store.state = "OPEN"
     /\ store.openedAt = prev.openedAt

\* C8: resetCircuit from any state leaves CLOSED with failures 0, successCount
\* 0, lastFailure and openedAt null; canProceed then returns true; a second
\* resetCircuit changes nothing.
C8_ResetYieldsInitial ==
  (op = "resetCircuit") =>
     /\ store = InitialStore
     /\ canProceed(store, now).ret = TRUE
     /\ resetCircuit(store) = store

C8_Witness ==
  /\ op = "resetCircuit"
  /\ prev.state = "HALF_OPEN"
  /\ prev.successCount = 1
  /\ prev.failures >= 2
  /\ prev.openedAt # Null
  /\ store.state = "CLOSED"

\* C9: a recordSuccess while CLOSED sets failures to 0 and lastFailure to null
\* and leaves the state CLOSED and successCount and openedAt as they were.
C9_ClosedSuccessForgives ==
  (op = "recordSuccess" /\ prev.state = "CLOSED") =>
     /\ store.failures = 0
     /\ store.lastFailure = Null
     /\ store.state = "CLOSED"
     /\ store.successCount = prev.successCount
     /\ store.openedAt = prev.openedAt

C9_Witness ==
  /\ op = "recordSuccess"
  /\ prev.state = "CLOSED"
  /\ prev.failures = 1
  /\ prev.lastFailure # Null
  /\ store.failures = 0

\* C10: a recordSuccess while OPEN changes nothing: state, failures,
\* lastFailure, successCount and openedAt are as before.
C10_OpenSuccessNoEffect ==
  (op = "recordSuccess" /\ prev.state = "OPEN") => store = prev

C10_Witness ==
  /\ op = "recordSuccess"
  /\ prev.state = "OPEN"
  /\ prev.failures > 0
  /\ store.state = "OPEN"

C13_FailureAlwaysCounted ==
  (op = "recordFailure") =>
     /\ store.failures = prev.failures + 1
     /\ store.lastFailure = t0

C13_Witness ==
  /\ op = "recordFailure"
  /\ prev.state = "OPEN"
  /\ prev.lastFailure < t0
  /\ store.failures = prev.failures + 1
  /\ store.failures > props.failureThreshold

\* C19: the state changes only along the edges CLOSED -> OPEN (recordFailure),
\* OPEN -> HALF_OPEN (canProceed), HALF_OPEN -> CLOSED (recordSuccess),
\* HALF_OPEN -> OPEN (recordFailure) and any -> CLOSED (resetCircuit).
TransitionTable ==
  {<<"CLOSED", "recordFailure", "OPEN">>,
   <<"OPEN", "canProceed", "HALF_OPEN">>,
   <<"HALF_OPEN", "recordSuccess", "CLOSED">>,
   <<"HALF_OPEN", "recordFailure", "OPEN">>,
   <<"OPEN", "resetCircuit", "CLOSED">>,
   <<"HALF_OPEN", "resetCircuit", "CLOSED">>}

C19_OnlyTableEdges ==
  (prev.state # store.state) => <<prev.state, op, store.state>> \in TransitionTable

C19_Witness ==
  /\ prev.state = "HALF_OPEN"
  /\ op = "recordSuccess"
  /\ store.state = "CLOSED"
  /\ props.halfOpenSuccessThreshold = 2

\* C12: in HALF_OPEN only a limited number of requests are allowed: the number
\* of canProceed calls that return true in one HALF_OPEN period before any
\* outcome is recorded stays below a finite bound (here the largest count the
\* model keeps).
C12_HalfOpenAdmitsLimited ==
  (store.state = "HALF_OPEN") => admitted < MaxAdmitted

\* C15: right after create, for any configuration, the breaker is CLOSED with
\* failures 0, successCount 0, lastFailure and openedAt null, canProceed
\* returns true, and omitted fields default to failureThreshold 5, timeoutMs
\* 30000, halfOpenSuccessThreshold 1.
C15_CreateDefaults ==
  (op = "create") =>
     /\ store = InitialStore
     /\ canProceed(store, now).ret = TRUE
     /\ props.failureThreshold =
          (IF config.failureThreshold = Null THEN 5 ELSE config.failureThreshold)
     /\ props.timeoutMs =
          (IF config.timeoutMs = Null THEN 30000 ELSE config.timeoutMs)
     /\ props.halfOpenSuccessThreshold =
          (IF config.halfOpenSuccessThreshold = Null THEN 1
           ELSE config.halfOpenSuccessThreshold)

C15_Witness ==
  /\ op = "create"
  /\ config.failureThreshold = Null
  /\ config.timeoutMs = 2
  /\ config.halfOpenSuccessThreshold = Null
  /\ props.failureThreshold = 5
  /\ props.halfOpenSuccessThreshold = 1

C17_SameIdIffSameUrl ==
  (props.dna.id = other.props.dna.id) <=> (props.url = other.props.url)

\* C14: getCircuitState, getStats and toJson report the current state,
\* failures, lastFailure, successCount, openedAt and configuration, toJson
\* reports the values getStats reports, and none of them changes the state or
\* a stored field (an OPEN breaker whose timeout has passed stays OPEN).
C14_ReadsArePure ==
  /\ (op = "getCircuitState") => (store = prev /\ ret = String(store.state))
  /\ (op = "getStats") =>
       /\ store = prev
       /\ ret.object.url = props.url
       /\ ret.object.state = store.state
       /\ ret.object.failures = store.failures
       /\ ret.object.lastFailure = store.lastFailure
       /\ ret.object.successCount = store.successCount
       /\ ret.object.openedAt = store.openedAt
       /\ ret.object.config.failureThreshold = props.failureThreshold
       /\ ret.object.config.timeoutMs = props.timeoutMs
       /\ ret.object.config.halfOpenSuccessThreshold = props.halfOpenSuccessThreshold
  /\ (op = "toJson") =>
       /\ store = prev
       /\ ret.json.url = getStats(store).url
       /\ ret.json.state.current = getStats(store).state
       /\ ret.json.state.failures = JsonNumber(getStats(store).failures)
       /\ ret.json.state.lastFailure = JsonNumber(getStats(store).lastFailure)
       /\ ret.json.state.successCount = JsonNumber(getStats(store).successCount)
       /\ ret.json.state.openedAt = JsonNumber(getStats(store).openedAt)
       /\ ret.json.config.failureThreshold = JsonNumber(getStats(store).config.failureThreshold)
       /\ ret.json.config.timeoutMs = JsonNumber(getStats(store).config.timeoutMs)
       /\ ret.json.config.halfOpenSuccessThreshold =
            JsonNumber(getStats(store).config.halfOpenSuccessThreshold)
       /\ ret.json.state.failures = ToString(store.failures)

C14_Witness ==
  /\ op = "toJson"
  /\ store.state = "OPEN"
  /\ store.openedAt > 0
  /\ t0 - store.openedAt >= props.timeoutMs
  /\ ret.json.state.current = "OPEN"
  /\ ret.json.state.failures = "2"
  /\ ret.json.state.lastFailure # ret.json.state.openedAt

\* C18: invoking a capability of the contract returned by teach with no
\* arguments has the effect on the store, and returns the value, of calling
\* the method of the same name directly.
C18_CapabilityRunsMethod ==
  \A name \in Capabilities :
    (op = CapabilityOp[name]) =>
       /\ ret = method(name, prev, t0).ret
       /\ store = method(name, prev, t0).store

\* C20: OPEN is never terminal: when the clock keeps advancing and canProceed
\* keeps being called, an OPEN breaker eventually is HALF_OPEN or CLOSED,
\* whatever is recorded meanwhile.  (A breaker whose timeout ends after the
\* last instant of the clock, MaxTime, is left out.)
TimeoutBeyondClock ==
  store.openedAt # Null /\ store.openedAt + props.timeoutMs > MaxTime

C20_OpenNotTerminal ==
  (store.state = "OPEN") ~> (store.state # "OPEN" \/ TimeoutBeyondClock)

\* C21: after every whole operation openedAt is present exactly when the state
\* is OPEN or HALF_OPEN: absent while CLOSED, set while OPEN or HALF_OPEN.
C21_OpenedAtIffNotClosed ==
  (store.openedAt # Null) <=> (store.state \in {"OPEN", "HALF_OPEN"})

\* the probation began: HALF_OPEN, reached by canProceed, with openedAt kept
C21_Witness ==
  /\ op = "canProceed"
  /\ prev.state = "OPEN"
  /\ store.state = "HALF_OPEN"
  /\ store.openedAt # Null

\* C22: two recordFailure calls on a fresh breaker whose store accesses
\* interleave so that both read 'failures' before either writes it lose one
\* increment: the count ends at 1, not 2, and the breaker is still CLOSED
\* unless a single failure opens it.  Calls that do not overlap that way
\* count both failures.
C22_LostUpdate ==
  (begun = 2 /\ \A c \in Callers : calls[c].method = "recordFailure" /\ calls[c].pc = 0) =>
     IF calls[1].failures = calls[2].failures
     THEN /\ store.failures = 1
          /\ (props.failureThreshold > 1 => store.state = "CLOSED")
     ELSE store.failures = 2

\* failureThreshold failures were recorded and the breaker is still CLOSED
C22_Witness ==
  /\ begun = 2
  /\ \A c \in Callers : calls[c].method = "recordFailure" /\ calls[c].pc = 0
  /\ calls[1].failures = calls[2].failures
  /\ props.failureThreshold = 2
  /\ store.failures = 1
  /\ store.state = "CLOSED"

\* C23: when the store writes of resetCircuit and of an opening recordFailure
\* interleave, the breaker can end OPEN with openedAt absent.  In that state
\* canProceed returns false at every later time and changes nothing, a
\* canProceed call made and completed in that state returns false, and the
\* state is left only by the first write of a resetCircuit (line 138) or the
\* openedAt write of an opening recordFailure (line 147), or by a call that
\* began before the breaker was in that state.
C23_OpenWithoutOpenedAtBlocks ==
  /\ [](OpenWithoutOpenedAt(store) =>
          \A t \in now..MaxTime : canProceed(store, t) = [store |-> store, ret |-> FALSE])
  /\ [](\A c \in Callers :
          (calls[c].method = "canProceed" /\ calls[c].pc = 0 /\ calls[c].inStuck) =>
             calls[c].ret = "false")
  /\ [][(OpenWithoutOpenedAt(store) /\ ~OpenWithoutOpenedAt(store')) =>
          \E c \in Callers :
            /\ calls'[c].pc # calls[c].pc
            /\ (calls[c].pc \in {138, 147} \/ ~calls[c].inStuck)]_vars

\* a resetCircuit and a recordFailure have run interleaved and left the breaker
\* OPEN without openedAt; a canProceed made after the timeout returned false
C23_Witness ==
  /\ begun = 3
  /\ OpenWithoutOpenedAt(store)
  /\ now >= props.timeoutMs
  /\ calls[1].method = "canProceed" /\ calls[1].pc = 0
  /\ calls[1].inStuck /\ calls[1].ret = "false"
  /\ calls[2].method = "resetCircuit" /\ calls[2].pc = 0

\* C24: a key absent from the backing store reads as its default and no
\* method fails: getCircuitState returns CLOSED, canProceed returns true,
\* getStats reports failures 0 and successCount 0 and absent timestamps, and
\* recordFailure over an absent 'failures' stores 1.
C24_AbsentKeysDefault ==
  /\ (op = "getCircuitState" /\ prev.state = Undefined) => ret = String("CLOSED")
  /\ (op = "canProceed" /\ prev.state = Undefined) =>
        (ret = Boolean(TRUE) /\ store = prev)
  /\ (op = "getStats") =>
       /\ (prev.state = Undefined => ret.object.state = "CLOSED")
       /\ (prev.failures = Null => ret.object.failures = 0)
       /\ (prev.successCount = Null => ret.object.successCount = 0)
       /\ (prev.lastFailure = Null => ret.object.lastFailure = Null)
       /\ (prev.openedAt = Null => ret.object.openedAt = Null)
  /\ (op = "recordFailure" /\ prev.failures = Null) => store.failures = 1
  /\ (op = "recordSuccess" /\ prev.state = Undefined) =>
        (store.failures = 0 /\ store.lastFailure = Null)

\* recordFailure ran over a store holding neither 'state' nor 'failures'
C24_Witness ==
  /\ op = "recordFailure"
  /\ prev.state = Undefined
  /\ prev.failures = Null
  /\ store.failures = 1

\* C25: after every whole operation the state is CLOSED exactly when the
\* failure count is below failureThreshold: below it while CLOSED, at or above
\* it throughout OPEN and HALF_OPEN.
C25_ClosedIffBelowThreshold ==
  (store.state = "CLOSED") <=> (store.failures < props.failureThreshold)

\* the probation runs with the failures that opened the breaker still counted
C25_Witness ==
  /\ op = "canProceed"
  /\ store.state = "HALF_OPEN"
  /\ store.failures >= props.failureThreshold
  /\ store.failures > 0

\* C26: after every whole operation successCount is 0 while the state is
\* CLOSED or OPEN; while HALF_OPEN it is the number of recordSuccess calls
\* made since the breaker entered HALF_OPEN and is below
\* halfOpenSuccessThreshold.
C26_SuccessCountOfProbation ==
  /\ (store.state \in {"CLOSED", "OPEN"}) => store.successCount = 0
  /\ (store.state = "HALF_OPEN") =>
        /\ store.successCount = probes
        /\ store.successCount < props.halfOpenSuccessThreshold

\* a success was recorded in the probation and did not yet close the breaker
C26_Witness ==
  /\ op = "recordSuccess"
  /\ store.state = "HALF_OPEN"
  /\ store.successCount = 1
  /\ probes = 1

\* C27: what canProceed returns agrees with the state it leaves: after a call
\* that returned false the state is OPEN, after a call that returned true it
\* is CLOSED or HALF_OPEN; nobody is admitted while the breaker stays OPEN.
C27_ResultAgreesWithState ==
  (op = "canProceed") =>
     /\ (ret = Boolean(FALSE) => getCircuitState(store) = "OPEN")
     /\ (ret = Boolean(TRUE) => getCircuitState(store) \in {"CLOSED", "HALF_OPEN"})
     /\ ret \in {Boolean(FALSE), Boolean(TRUE)}

\* the timeout has passed: the caller is admitted and the state has moved
C27_Witness ==
  /\ op = "canProceed"
  /\ getCircuitState(prev) = "OPEN"
  /\ ret = Boolean(TRUE)
  /\ getCircuitState(store) = "HALF_OPEN"
  /\ t0 - prev.openedAt >= props.timeoutMs

\* C28: from CLOSED the breaker opens only on consecutive failures: the state
\* goes from CLOSED to OPEN exactly in the recordFailure call that is the
\* failureThreshold-th since the most recent recordSuccess, resetCircuit or
\* creation; failures with a success between them do not add up.
C28_OpensOnConsecutiveFailures ==
  [][/\ (getCircuitState(store) = "CLOSED" /\ getCircuitState(store') = "OPEN") =>
          (RecordFailure /\ sinceSuccess + 1 = props.failureThreshold)
     /\ (RecordFailure /\ getCircuitState(store) = "CLOSED") =>
          IF sinceSuccess + 1 = props.failureThreshold
          THEN getCircuitState(store') = "OPEN"
          ELSE /\ sinceSuccess + 1 < props.failureThreshold
               /\ getCircuitState(store') = "CLOSED"]_vars

\* the second failure in a row opened the breaker, after a call other than
\* recordFailure had been made since creation or reset
C28_Witness ==
  /\ op = "recordFailure"
  /\ getCircuitState(prev) = "CLOSED"
  /\ getCircuitState(store) = "OPEN"
  /\ props.failureThreshold = 2
  /\ prev.failures = 1
  /\ streak = -1

====
